---- MODULE Spec2Model ----
(***************************************************************************)
(* CustomPrint Studio API (src/main.py, src/schemas.py): the product       *)
(* listing, the enquiry submission and the startup seeder of one or two    *)
(* service instances that share one document store.                        *)
(*                                                                         *)
(* Encoding of Python values:                                              *)
(*   - a dict (a stored document) is a function from key strings to        *)
(*     values; a missing key is a key outside its DOMAIN;                  *)
(*   - an Optional value is a sequence of length <= 1: None is <<>>, the   *)
(*     value v is <<v>>; the nullable document keys (description, price,   *)
(*     image) hold Optional values;                                        *)
(*   - an identifier is [kind |-> "ObjectId", n |-> k] (assigned by the    *)
(*     store) or [kind |-> "str", s |-> "0"] (the fallback's literal);     *)
(*   - a datetime is the integer reading of the clock `now`;               *)
(*   - a JSON number is counted in halves (Num(2) is 1, Num(3) is 1.5), so *)
(*     that a number which is no integer exists;                           *)
(*   - an e-mail address is a sequence of one-character strings.           *)
(* The two typographic hyphens of the demo titles are written "-".         *)
(***************************************************************************)
EXTENDS Integers, Sequences, FiniteSets, TLC

\* Bounds of the model.
MaxClock == 1
MaxEnquiries == 2

\* The service instances started against the same store.
Instance == {"A", "B"}

VARIABLES
    db,        \* TRUE when the module-level `db` is not None (the deployment
               \* sets DATABASE_URL and DATABASE_NAME; every instance shares it)
    product,   \* the store's "product" collection, in insertion order
    enquiry,   \* the store's "enquiry" collection, in insertion order
    nextId,    \* the store's next ObjectId
    now,       \* the clock datetime.utcnow() reads
    pc,        \* pc[i]: "off" (instance i is not deployed), "boot" (startup
               \* event pending), "counted" (the seeder has read count == 0
               \* and is about to insert), "up" (serving), "crashed" (the
               \* startup event raised)
    seedRun,   \* seedRun[i]: what instance i's seeder run did (history)
    resp       \* the response to the latest request (history)

vars == <<db, product, enquiry, nextId, now, pc, seedRun, resp>>

None == <<>>
Some(v) == <<v>>

----------------------------------------------------------------------------
\* Python helpers

\* dict.get(key, default)
Get(doc, key, default) == IF key \in DOMAIN doc THEN doc[key] ELSE default

\* dict.get(key) of a nullable key: the stored Optional, None when missing
GetOpt(doc, key) == IF key \in DOMAIN doc THEN doc[key] ELSE None

\* bool(x) of a boolean
Bool(x) == x = TRUE

HexDigit(d) ==
    CASE d = 0 -> "0" [] d = 1 -> "1" [] d = 2 -> "2" [] d = 3 -> "3"
      [] d = 4 -> "4" [] d = 5 -> "5" [] d = 6 -> "6" [] d = 7 -> "7"
      [] d = 8 -> "8" [] d = 9 -> "9" [] d = 10 -> "a" [] d = 11 -> "b"
      [] d = 12 -> "c" [] d = 13 -> "d" [] d = 14 -> "e" [] d = 15 -> "f"

RECURSIVE Hex(_, _)
\* n in hexadecimal, zero-padded to `width` digits
Hex(n, width) ==
    IF width = 0 THEN "" ELSE Hex(n \div 16, width - 1) \o HexDigit(n % 16)

ObjectId(n) == [kind |-> "ObjectId", n |-> n]
StrId(s) == [kind |-> "str", s |-> s]

\* str(x) of an identifier: a str is itself, an ObjectId its 24 hex digits
Str(x) == IF x.kind = "str" THEN x.s ELSE Hex(x.n, 24)

----------------------------------------------------------------------------
\* Document mapper

\* The mapper with the defaults of title and category left empty.
to_product_out_blank_defaults(doc) ==
    [id          |-> Str(doc["_id"]),
     title       |-> Get(doc, "title", ""),
     description |-> GetOpt(doc, "description"),
     price       |-> GetOpt(doc, "price"),
     category    |-> Get(doc, "category", ""),
     image       |-> GetOpt(doc, "image"),
     featured    |-> Bool(Get(doc, "featured", FALSE))]

\* ProductOut(id=str(doc.get("_id")), title=doc.get("title", "Untitled"), ...)
_to_product_out(doc) ==
    [id          |-> Str(doc["_id"]),
     title       |-> Get(doc, "title", "Untitled"),
     description |-> GetOpt(doc, "description"),
     price       |-> GetOpt(doc, "price"),
     category    |-> Get(doc, "category", "General"),
     image       |-> GetOpt(doc, "image"),
     featured    |-> Bool(Get(doc, "featured", FALSE))]

\* [_to_product_out(doc) for doc in docs]
MapOut(docs) == [k \in 1..Len(docs) |-> _to_product_out(docs[k])]

----------------------------------------------------------------------------
\* Request validation

\* schemas.Enquiry.product_type: Literal['2D Laser-cut','3D Trophy','3D Mockup','Other']
ProductTypes == {"2D Laser-cut", "3D Trophy", "3D Mockup", "Other"}

Num(h) == [kind |-> "num", halves |-> h]
Text(cs) == [kind |-> "text", chars |-> cs]

Digits == {"0", "1", "2", "3", "4", "5", "6", "7", "8", "9"}

DigitVal(c) ==
    CASE c = "0" -> 0 [] c = "1" -> 1 [] c = "2" -> 2 [] c = "3" -> 3
      [] c = "4" -> 4 [] c = "5" -> 5 [] c = "6" -> 6 [] c = "7" -> 7
      [] c = "8" -> 8 [] c = "9" -> 9

RECURSIVE DecVal(_)
DecVal(cs) ==
    IF cs = <<>> THEN 0
    ELSE 10 * DecVal(SubSeq(cs, 1, Len(cs) - 1)) + DigitVal(cs[Len(cs)])

\* The int type of a pydantic (v2, lax mode) field, applied to a JSON value: an
\* integral number is itself, a number with a fractional part is rejected, a
\* string of digits is parsed, any other string is rejected.
IntOf(q) ==
    IF q.kind = "num"
    THEN IF q.halves % 2 = 0 THEN [ok |-> TRUE, v |-> q.halves \div 2]
         ELSE [ok |-> FALSE, v |-> 0]
    ELSE IF q.chars # <<>> /\ \A k \in 1..Len(q.chars) : q.chars[k] \in Digits
         THEN [ok |-> TRUE, v |-> DecVal(q.chars)]
         ELSE [ok |-> FALSE, v |-> 0]

\* EmailStr: local@domain, one "@", a dot inside the domain
EmailStr(cs) ==
    \E at \in 2..Len(cs) :
        /\ cs[at] = "@"
        /\ \A k \in 1..Len(cs) : cs[k] = "@" => k = at
        /\ \E dot \in (at + 2)..(Len(cs) - 1) : cs[dot] = "."
        /\ cs[at + 1] # "."

\* The quantity constraint written ge=0.
QuantityOk_ge0(q) == q = None \/ (IntOf(q[1]).ok /\ IntOf(q[1]).v >= 0)

\* quantity: Optional[int] = Field(None, ge=1)
QuantityOk(q) == q = None \/ (IntOf(q[1]).ok /\ IntOf(q[1]).v >= 1)

\* product_type: str = Field(...): required, any string
ProductTypeOk(pt) == pt # None

\* The fields of a raw body that EnquiryIn rejects (empty: the body is valid).
EnquiryInErrors(raw) ==
    {f \in {"name", "message"} : raw[f] = None}
        \cup (IF raw.email = None \/ ~EmailStr(raw.email[1]) THEN {"email"} ELSE {})
        \cup (IF ProductTypeOk(raw.product_type) THEN {} ELSE {"product_type"})
        \cup (IF QuantityOk(raw.quantity) THEN {} ELSE {"quantity"})

\* The validated EnquiryIn as the dict that is stored (every declared field).
EnquiryIn(raw) ==
    [name          |-> raw.name[1],
     email         |-> raw.email[1],
     phone         |-> None,
     company       |-> None,
     product_type  |-> raw.product_type[1],
     quantity      |-> IF raw.quantity = None THEN None
                       ELSE Some(IntOf(raw.quantity[1]).v),
     budget_range  |-> None,
     message       |-> raw.message[1],
     reference_url |-> None]

----------------------------------------------------------------------------
\* Store facade (pymongo collection operations)

\* doc with key k set to v
With(doc, k, v) == [x \in DOMAIN doc \cup {k} |-> IF x = k THEN v ELSE doc[x]]

\* find(query): equality on every key of the query; a missing key matches nothing
Matches(doc, query) ==
    \A k \in DOMAIN query : k \in DOMAIN doc /\ doc[k] = query[k]

RECURSIVE Filter(_, _)
Filter(docs, query) ==
    IF docs = <<>> THEN <<>>
    ELSE (IF Matches(Head(docs), query) THEN <<Head(docs)>> ELSE <<>>)
             \o Filter(Tail(docs), query)

\* The sort key: a missing created_at sorts below every datetime.
CreatedKey(doc) == Get(doc, "created_at", -1)

RECURSIVE InsertDesc(_, _)
InsertDesc(sorted, doc) ==
    IF sorted = <<>> THEN <<doc>>
    ELSE IF CreatedKey(Head(sorted)) >= CreatedKey(doc)
         THEN <<Head(sorted)>> \o InsertDesc(Tail(sorted), doc)
         ELSE <<doc>> \o sorted

RECURSIVE SortDesc(_)
\* .sort("created_at", -1), ties kept in insertion order
SortDesc(docs) ==
    IF docs = <<>> THEN <<>>
    ELSE InsertDesc(SortDesc(SubSeq(docs, 1, Len(docs) - 1)), docs[Len(docs)])

\* insert_many / insert_one: each document gets the next ObjectId
InsertMany(coll, docs, first) ==
    coll \o [k \in 1..Len(docs) |-> With(docs[k], "_id", ObjectId(first + k - 1))]

----------------------------------------------------------------------------
\* Startup seeder

demo_products ==
    << [title       |-> "Precision Laser-Cut Signage",
        description |-> Some("Crisp edges in acrylic/wood with custom finishes."),
        price       |-> Some(149),
        category    |-> "2D Laser-cut",
        image       |-> Some("photo-1518779578993-ec3579fee39f"),
        featured    |-> TRUE],
       [title       |-> "3D Trophy - Metallic Finish",
        description |-> Some("Award-ready trophies with premium 3D look."),
        price       |-> Some(249),
        category    |-> "3D Trophy",
        image       |-> Some("photo-1513451713350-dee890297c4a"),
        featured    |-> TRUE],
       [title       |-> "3D-Style Product Mockup",
        description |-> Some("Stand-out visuals for packaging and promos."),
        price       |-> Some(99),
        category    |-> "3D Mockup",
        image       |-> Some("photo-1485827404703-89b55fcc595e"),
        featured    |-> TRUE],
       [title       |-> "Custom Keychains",
        description |-> Some("Personalised laser-cut keychains in bulk."),
        price       |-> Some(5),
        category    |-> "2D Laser-cut",
        image       |-> Some("photo-1520975922133-0f775525ae37"),
        featured    |-> FALSE] >>

RECURSIVE ClockReads(_, _)
\* The results of n successive datetime.utcnow() calls made from time t on:
\* the clock never goes back and may advance between any two calls.
ClockReads(n, t) ==
    IF n = 0 THEN {<<>>}
    ELSE UNION {{<<u>> \o rest : rest \in ClockReads(n - 1, u)} : u \in t..MaxClock}

\* for p in demo_products: p["created_at"] = utcnow(); p["updated_at"] = utcnow()
\* reads[2k-1] and reads[2k] are the two calls made for the k-th product.
Stamp(docs, reads) ==
    [k \in 1..Len(docs) |->
        With(With(docs[k], "created_at", reads[2 * k - 1]),
             "updated_at", reads[2 * k])]

\* The emptiness test written count >= 0.
NeedsSeed_always(count) == count >= 0

\* if count == 0:
NeedsSeed(count) == count = 0

\* The handler without its try/except.
seed_except_reraise(raised) == raised

\* except Exception: pass -- whether an exception raised in the body leaves
\* the startup handler
seed_except(raised) == FALSE

NoRun == [count |-> -1, ops |-> 0, failed |-> FALSE, raised |-> FALSE,
          ids |-> {}]

\* The startup handler up to and including count_documents; with count > 0, a
\* failed count or no db it is the whole handler.
seed_products_if_needed(i) ==
    /\ pc[i] = "boot"
    /\ \/ /\ ~db
          /\ pc' = [pc EXCEPT ![i] = "up"]
          /\ seedRun' = seedRun
       \/ /\ db
          /\ \E ok \in BOOLEAN :
                IF ok
                THEN /\ pc' = [pc EXCEPT ![i] =
                                  IF NeedsSeed(Len(product)) THEN "counted" ELSE "up"]
                     /\ seedRun' = [seedRun EXCEPT ![i].count = Len(product),
                                                   ![i].ops = 1]
                ELSE /\ pc' = [pc EXCEPT ![i] =
                                  IF seed_except(TRUE) THEN "crashed" ELSE "up"]
                     /\ seedRun' = [seedRun EXCEPT ![i].ops = 1,
                                                   ![i].failed = TRUE,
                                                   ![i].raised = seed_except(TRUE)]
    /\ UNCHANGED <<db, product, enquiry, nextId, now, resp>>

\* The insert made only if the collection is still empty.
seed_insert_guarded(i) ==
    /\ pc[i] = "counted"
    /\ \E reads \in ClockReads(2 * Len(demo_products), now), ok \in BOOLEAN :
          /\ now' = reads[Len(reads)]
          /\ IF ok /\ product = <<>>
             THEN /\ product' = InsertMany(product, Stamp(demo_products, reads), nextId)
                  /\ nextId' = nextId + Len(demo_products)
                  /\ seedRun' = [seedRun EXCEPT
                        ![i].ops = 2,
                        ![i].ids = nextId..(nextId + Len(demo_products) - 1)]
             ELSE /\ UNCHANGED <<product, nextId>>
                  /\ seedRun' = [seedRun EXCEPT ![i].ops = 2, ![i].failed = ~ok]
          /\ pc' = [pc EXCEPT ![i] = "up"]
    /\ UNCHANGED <<db, enquiry, resp>>

\* The rest of the startup handler after count == 0: stamp the four demo
\* products and insert_many them.  The store may have changed since the count.
seed_insert(i) ==
    /\ pc[i] = "counted"
    /\ \E reads \in ClockReads(2 * Len(demo_products), now), ok \in BOOLEAN :
          /\ now' = reads[Len(reads)]
          /\ IF ok
             THEN /\ product' = InsertMany(product, Stamp(demo_products, reads), nextId)
                  /\ nextId' = nextId + Len(demo_products)
                  /\ pc' = [pc EXCEPT ![i] = "up"]
                  /\ seedRun' = [seedRun EXCEPT
                        ![i].ops = 2,
                        ![i].ids = nextId..(nextId + Len(demo_products) - 1)]
             ELSE /\ UNCHANGED <<product, nextId>>
                  /\ pc' = [pc EXCEPT ![i] =
                               IF seed_except(TRUE) THEN "crashed" ELSE "up"]
                  /\ seedRun' = [seedRun EXCEPT ![i].ops = 2,
                                                ![i].failed = TRUE,
                                                ![i].raised = seed_except(TRUE)]
    /\ UNCHANGED <<db, enquiry, resp>>

----------------------------------------------------------------------------
\* GET /api/products

fallback ==
    << [_id         |-> StrId("0"),
        title       |-> "Sample Product",
        description |-> Some("Configure DATABASE_URL and DATABASE_NAME to load real items."),
        category    |-> "General",
        image       |-> None,
        featured    |-> TRUE] >>

\* if featured is not None: query["featured"] = bool(featured)
\* if category: query["category"] = category        ("" is falsy)
Query(featured, category) ==
    [k \in (IF featured # None THEN {"featured"} ELSE {})
             \cup (IF category # None /\ category # Some("") THEN {"category"} ELSE {})
        |-> IF k = "featured" THEN Bool(featured[1]) ELSE category[1]]

\* No fallback: the empty list.
NoDbProducts_empty == <<>>

\* The product list answered without a configured db.
NoDbProducts == MapOut(fallback)

\* The fallback answered for an empty collection as well.
DbProducts_fallback(featured, category) ==
    IF product = <<>> THEN NoDbProducts
    ELSE MapOut(SortDesc(Filter(product, Query(featured, category))))

\* The product list answered from the store.
DbProducts(featured, category) ==
    MapOut(SortDesc(Filter(product, Query(featured, category))))

list_products(i, featured, category) ==
    /\ pc[i] = "up"
    /\ IF ~db
       THEN resp' = [op |-> "list_products", status |-> 200,
                     body |-> NoDbProducts, args |-> <<featured, category>>]
       ELSE \E ok \in BOOLEAN :
               resp' = IF ok
                       THEN [op |-> "list_products", status |-> 200,
                             body |-> DbProducts(featured, category),
                             args |-> <<featured, category>>]
                       ELSE [op |-> "list_products", status |-> 500,
                             body |-> <<>>, args |-> <<featured, category>>]
    /\ UNCHANGED <<db, product, enquiry, nextId, now, pc, seedRun>>

----------------------------------------------------------------------------
\* POST /api/enquiries

\* database.create_document(collection_name, data): insert_one of the
\* validated payload; raises without a db or when the store rejects the write.
\* The result is [raised, coll (the collection afterwards), id (str of the
\* inserted id)].
create_document(coll, data, ok) ==
    IF db /\ ok
    THEN [raised |-> FALSE,
          coll   |-> InsertMany(coll, <<data>>, nextId),
          id     |-> Str(ObjectId(nextId))]
    ELSE [raised |-> TRUE, coll |-> coll, id |-> ""]

\* Whether the request body reaches the handler (FastAPI answers 422 otherwise).
Accepts(raw) == EnquiryInErrors(raw) = {}

\* The response built without the inserted id.
EnquiryOut_noid(inserted_id, t) == [id |-> "", created_at |-> t]

\* EnquiryOut(id=inserted_id, created_at=datetime.utcnow())
EnquiryOut(inserted_id, t) == [id |-> inserted_id, created_at |-> t]

create_enquiry(i, raw) ==
    /\ pc[i] = "up"
    /\ Len(enquiry) < MaxEnquiries
    /\ IF ~Accepts(raw)
       THEN /\ resp' = [op |-> "create_enquiry", status |-> 422,
                        body |-> EnquiryInErrors(raw), raw |-> raw]
            /\ UNCHANGED <<enquiry, nextId>>
       ELSE \E ok \in BOOLEAN :
               LET r == create_document(enquiry, EnquiryIn(raw), ok) IN
               /\ enquiry' = r.coll
               /\ nextId' = nextId + (Len(r.coll) - Len(enquiry))
               /\ resp' = IF r.raised
                          THEN [op |-> "create_enquiry", status |-> 500,
                                body |-> "Failed to submit", raw |-> raw]
                          ELSE [op |-> "create_enquiry", status |-> 201,
                                body |-> EnquiryOut(r.id, now), raw |-> raw]
    /\ UNCHANGED <<db, product, now, pc, seedRun>>

----------------------------------------------------------------------------
\* Time passes.
Tick ==
    /\ now < MaxClock
    /\ now' = now + 1
    /\ UNCHANGED <<db, product, enquiry, nextId, pc, seedRun, resp>>

----------------------------------------------------------------------------
\* Inputs

FeaturedArgs == {None, Some(TRUE), Some(FALSE)}
CategoryArgs == {None, Some(""), Some("3D Trophy")}

GoodEmail == <<"a", "@", "b", ".", "c">>
BadEmail == <<"a", "b", ".", "c">>

ValidEnquiry ==
    [name |-> Some("A"), email |-> Some(GoodEmail), product_type |-> Some("Other"),
     quantity |-> None, message |-> Some("hi")]

\* Request bodies: the valid one, and bodies that differ from it in the
\* product type, the quantity, the e-mail address or the name.
RawEnquiries ==
    {ValidEnquiry,
     [ValidEnquiry EXCEPT !.product_type = Some("Banner"), !.quantity = Some(Num(2))],
     [ValidEnquiry EXCEPT !.product_type = Some("Banner"), !.quantity = Some(Num(0))],
     [ValidEnquiry EXCEPT !.product_type = None],
     [ValidEnquiry EXCEPT !.email = Some(BadEmail)],
     [ValidEnquiry EXCEPT !.name = None]}
    \cup {[ValidEnquiry EXCEPT !.quantity = Some(q)] :
             q \in {Num(-2), Num(0), Num(3), Text(<<"x">>), Text(<<"2">>)}}

\* Documents put into the product collection by something other than the
\* seeder: an identifier and any subset of the other keys.
LegacyFields ==
    [title       |-> "Old Sign",
     description |-> Some("legacy"),
     price       |-> Some(10),
     category    |-> "3D Trophy",
     image       |-> None,
     featured    |-> TRUE]

LegacyDoc(keys) ==
    [k \in keys \cup {"_id"} |-> IF k = "_id" THEN ObjectId(0) ELSE LegacyFields[k]]

LegacyDocs == {LegacyDoc(keys) : keys \in SUBSET DOMAIN LegacyFields}

InitWith(collections, started) ==
    /\ db \in BOOLEAN
    /\ product \in collections
    /\ enquiry = <<>>
    /\ nextId = 1
    /\ now = 0
    /\ pc = [i \in Instance |-> IF i \in started THEN "boot" ELSE "off"]
    /\ seedRun = [i \in Instance |-> NoRun]
    /\ resp = [op |-> "none", status |-> 0, body |-> <<>>]

\* One instance, every operation.
Init ==
    InitWith({<<>>, <<LegacyDoc({})>>, <<LegacyDoc(DOMAIN LegacyFields)>>}, {"A"})

Next ==
    \/ \E i \in Instance : seed_products_if_needed(i)
    \/ \E i \in Instance : seed_insert(i)
    \/ \E i \in Instance, f \in FeaturedArgs, c \in CategoryArgs : list_products(i, f, c)
    \/ \E i \in Instance, raw \in RawEnquiries : create_enquiry(i, raw)
    \/ Tick

Spec == Init /\ [][Next]_vars

\* Two instances starting against the same store, and the product side
\* (seeder, listing, mapper) over every legacy document.
InitProducts == InitWith({<<>>} \cup {<<d>> : d \in LegacyDocs}, Instance)

NextProducts ==
    \/ \E i \in Instance : seed_products_if_needed(i)
    \/ \E i \in Instance : seed_insert(i)
    \/ \E i \in Instance, f \in FeaturedArgs, c \in CategoryArgs : list_products(i, f, c)
    \/ Tick

SpecProducts == InitProducts /\ [][NextProducts]_vars

----------------------------------------------------------------------------
\* Properties

\* C1: an enquiry whose product_type is missing or is not one of the four
\* allowed values is not accepted, and no such enquiry is ever written to the
\* enquiry collection.
C1_UnknownProductTypeRejected ==
    /\ (resp.op = "create_enquiry"
          /\ (resp.raw.product_type = None
                \/ resp.raw.product_type[1] \notin ProductTypes))
       => resp.status # 201
    /\ \A k \in 1..Len(enquiry) : enquiry[k].product_type \in ProductTypes

\* A quantity that is present and is not an integer, or is an integer <= 0.
BadQuantity(q) ==
    /\ q # None
    /\ \/ q[1].kind = "num" /\ (q[1].halves % 2 # 0 \/ q[1].halves <= 0)
       \/ q[1].kind = "text"
            /\ (\/ q[1].chars = <<>>
                \/ \E k \in 1..Len(q[1].chars) : q[1].chars[k] \notin Digits
                \/ DecVal(q[1].chars) <= 0)

\* C2: an enquiry whose quantity is present and is <= 0 or not an integer
\* fails validation on the quantity field before the handler runs: the
\* answer is 422, and the store is untouched (no document, no id drawn).
C2_BadQuantityRejected ==
    [][\A i \in Instance, raw \in RawEnquiries :
          (create_enquiry(i, raw) /\ BadQuantity(raw.quantity))
          => /\ resp'.status = 422
             /\ "quantity" \in resp'.body
             /\ enquiry' = enquiry
             /\ nextId' = nextId]_vars

C2_Witness ==
    /\ db
    /\ resp.op = "create_enquiry"
    /\ resp.raw.quantity = Some(Num(3))
    /\ resp.status = 422
    /\ Len(enquiry) = 1

\* C3: every step keeps the stored enquiries as they are (none updated, none
\* deleted); the collection grows only by an accepted submission (201), which
\* adds exactly one document, and the id it returns is the id of exactly one
\* stored document.
C3_EnquiriesAppendOnly ==
    [][/\ Len(enquiry') >= Len(enquiry)
       /\ SubSeq(enquiry', 1, Len(enquiry)) = enquiry
       /\ Len(enquiry') # Len(enquiry)
            => \E i \in Instance, raw \in RawEnquiries :
                  create_enquiry(i, raw) /\ resp'.status = 201
       /\ \A i \in Instance, raw \in RawEnquiries :
             (create_enquiry(i, raw) /\ resp'.status = 201)
             => /\ Len(enquiry') = Len(enquiry) + 1
                /\ Cardinality({k \in 1..Len(enquiry') :
                                   Str(enquiry'[k]["_id"]) = resp'.body.id}) = 1
                /\ resp'.body.created_at = now]_vars

C3_Witness ==
    /\ Len(enquiry) = 2
    /\ resp.op = "create_enquiry"
    /\ resp.status = 201
    /\ Str(enquiry[2]["_id"]) = resp.body.id
    /\ product # <<>>

\* C4: a seeder run that finds at least one product document ends there: it
\* changes nothing in the product collection and never goes on to insert.
C4_SeedNonEmptyNoOp ==
    [][\A i \in Instance :
          (seed_products_if_needed(i) /\ Len(product) > 0)
          => (product' = product /\ nextId' = nextId /\ pc'[i] = "up")]_vars

C4_Witness ==
    /\ db
    /\ \A i \in Instance : pc[i] = "up" /\ seedRun[i].count = 1
    /\ product = <<LegacyDoc({"category"})>>

\* The documents instance i's seeder inserted.
SeededBy(i) ==
    {product[k] : k \in {j \in 1..Len(product) : product[j]["_id"].n \in seedRun[i].ids}}

DemoTitles == {demo_products[k].title : k \in 1..Len(demo_products)}

\* C5: a seeder run that counted zero and whose insert succeeded has inserted
\* exactly four records, one per demo title, each with created_at equal to
\* its updated_at.
C5_SeedInsertsFourStampedAlike ==
    \A i \in Instance :
        seedRun[i].ids # {}
        => /\ seedRun[i].count = 0
           /\ Cardinality(SeededBy(i)) = 4
           /\ {d.title : d \in SeededBy(i)} = DemoTitles
           /\ \A d \in SeededBy(i) : d.created_at = d.updated_at

\* C6: the seeder never lets an error out: the startup event never raises,
\* without a db it issues no store operation, and after a failed count or
\* insert the instance is up all the same.
C6_SeederNeverRaises ==
    \A i \in Instance :
        /\ ~seedRun[i].raised
        /\ pc[i] # "crashed"
        /\ ~db => seedRun[i].ops = 0
        /\ seedRun[i].failed => pc[i] = "up"

C6_Witness ==
    /\ seedRun["A"].failed /\ seedRun["A"].ops = 2 /\ pc["A"] = "up"
    /\ seedRun["B"].failed /\ seedRun["B"].ops = 1 /\ pc["B"] = "up"

\* C7: without a db, every product listing, whatever its filters, answers 200
\* with exactly one record, titled "Sample Product" and featured.
C7_FallbackWithoutDb ==
    (resp.op = "list_products" /\ ~db)
    => /\ resp.status = 200
       /\ Len(resp.body) = 1
       /\ resp.body[1].title = "Sample Product"
       /\ resp.body[1].featured = TRUE
       /\ resp.body[1].id = "0"

C7_Witness ==
    /\ ~db
    /\ resp.op = "list_products"
    /\ resp.args = <<Some(FALSE), Some("3D Trophy")>>
    /\ Len(resp.body) = 1

\* C8 as stated: with a db whose product collection is empty, a listing that
\* the store answers returns the single fallback record.
C8_FallbackWhenCollectionEmpty ==
    (resp.op = "list_products" /\ db /\ product = <<>> /\ resp.status = 200)
    => resp.body = NoDbProducts

\* C8 amended: with a db whose product collection is empty, a listing whose
\* query succeeds answers the empty list; the fallback record is answered only
\* without a db.
C8_EmptyListWhenCollectionEmpty ==
    /\ (resp.op = "list_products" /\ db /\ product = <<>> /\ resp.status = 200)
       => resp.body = <<>>
    /\ (resp.op = "list_products" /\ db /\ resp.status = 200)
       => \A k \in 1..Len(resp.body) : resp.body[k].id # "0"

C8_Witness ==
    /\ resp.op = "list_products"
    /\ db
    /\ product = <<>>
    /\ resp.status = 200
    /\ resp.args = <<None, None>>

ProductOutFields ==
    {"id", "title", "description", "price", "category", "image", "featured"}

\* C9: every record of a listing answered from the store comes from a stored
\* document, has all seven output fields, a 24-character text id, and for
\* title, category and featured the document's value, or "Untitled",
\* "General" and FALSE where the document has no such key.
C9_MapperDefaults ==
    (resp.op = "list_products" /\ db /\ resp.status = 200)
    => \A k \in 1..Len(resp.body) :
          LET out == resp.body[k] IN
          /\ DOMAIN out = ProductOutFields
          /\ Len(out.id) = 24
          /\ out.featured \in BOOLEAN
          /\ \E j \in 1..Len(product) :
                LET doc == product[j] IN
                /\ out.id = Hex(doc["_id"].n, 24)
                /\ out.title = IF "title" \in DOMAIN doc THEN doc.title
                               ELSE "Untitled"
                /\ out.category = IF "category" \in DOMAIN doc THEN doc.category
                                  ELSE "General"
                /\ out.featured = IF "featured" \in DOMAIN doc THEN doc.featured
                                  ELSE FALSE

C9_Witness ==
    /\ resp.op = "list_products"
    /\ db
    /\ resp.status = 200
    /\ product = <<LegacyDoc({})>>
    /\ Len(resp.body) = 1
    /\ resp.body[1].title = "Untitled"
    /\ resp.body[1].category = "General"
    /\ resp.body[1].featured = FALSE

\* C10: the insert is not conditioned on the store being still empty: every
\* instance that counted zero and whose insert did not fail has inserted its
\* four records, whatever another instance inserted in between.
C10_InsertAfterStaleCount ==
    \A i \in Instance :
        (pc[i] = "up" /\ seedRun[i].count = 0 /\ ~seedRun[i].failed)
        => Cardinality(SeededBy(i)) = 4

\* Both instances read count == 0 and both inserted: eight records, each demo
\* title twice.
C10_Witness ==
    /\ \A i \in Instance : seedRun[i].count = 0 /\ Cardinality(seedRun[i].ids) = 4
    /\ Len(product) = 8
    /\ \A t \in DemoTitles :
          Cardinality({k \in 1..Len(product) : product[k].title = t}) = 2

====
